---- MODULE Spec2Model ----
(***************************************************************************)
(* The dynamic entity-mapping database layer of The-Skyscape/devtools:     *)
(* DynamicDB (pkg/database/dynamic.go), Collection                         *)
(* (pkg/database/repository.go) and the Iter protocol, over an SQLite      *)
(* table store.                                                            *)
(***************************************************************************)
EXTENDS Integers, Sequences, FiniteSets, TLC

\* ------------------------------------------------------------------ bounds
MaxRows     == 2      \* rows a table may hold
MaxClock    == 5      \* last clock tick explored
TicksPerSec == 3      \* clock ticks per whole second (sub-second resolution)
MaxEnts     == 2      \* length of the registered-type list
NProcs      == 2      \* concurrent callers
ConcRows    == 1      \* rows stored before concurrent callers start
MaxLimit    == 4      \* largest page limit passed to Page
ReadRows    == 3      \* rows of the tables that are read

\* ------------------------------------------------------------- Go values
ZeroTime  == 0                      \* time.Time{} (year 1), before every tick
StartTick == TicksPerSec + 1        \* the clock starts between two whole seconds

Nil           == "nil"
ErrIterStop   == "stop iteration"
ErrNoRows     == "sql: no rows in result set"
ErrSyntax     == "sql: syntax error"
ErrNoTable    == "sql: no such table"
ErrNoColumn   == "sql: no such column"
ErrDupColumn  == "sql: duplicate column name"
ErrConstraint == "sql: UNIQUE constraint failed"
ErrVisitor    == "visitor error"
ErrNotStruct  == "expected struct"
ErrCreateTable == "failed to create table"

Ids       == {"u1", "u2", "u3"}    \* the identifiers in use
CallerIds == {"u1", "u2"}          \* the identifiers callers build records around
Titles == {"a"}
Types  == {"Task", "TaskV2"}
\* further types handed to Register: a named integer type passed by value (Score)
\* or by pointer (ScorePtr), and a struct whose Table() is an SQL keyword (Order)
EntTypes == Types \cup {"Score", "ScorePtr", "Order"}

\* ------------------------------------------------------- record shapes
Fld(n, k, a, t) == [name |-> n, kind |-> k, anon |-> a, tag |-> t]

\* database.Model: the identity block every record embeds
ModelFields == <<Fld("DB", "interface", FALSE, ""), Fld("ID", "string", FALSE, ""),
                 Fld("CreatedAt", "struct", FALSE, ""), Fld("UpdatedAt", "struct", FALSE, "")>>

\* Task{Model; Title string} and its evolved version with one more field;
\* authentication.Session{Model; UserID string} and authentication.User
Shape(T) ==
  IF T \in {"Score", "ScorePtr"} THEN <<>>
  ELSE IF T = "User"
    THEN <<Fld("Collection", "ptr", TRUE, ""), Fld("Model", "struct", TRUE, ""),
           Fld("Avatar", "string", FALSE, ""), Fld("Name", "string", FALSE, ""),
           Fld("Email", "string", FALSE, ""), Fld("Handle", "string", FALSE, ""),
           Fld("IsAdmin", "bool", FALSE, ""), Fld("PassHash", "slice", FALSE, "")>>
  ELSE IF T = "Session"
    THEN <<Fld("Model", "struct", TRUE, ""), Fld("UserID", "string", FALSE, "")>>
  ELSE IF T = "TaskV2"
    THEN <<Fld("Model", "struct", TRUE, ""), Fld("Title", "string", FALSE, ""),
           Fld("Done", "bool", FALSE, "")>>
    ELSE <<Fld("Model", "struct", TRUE, ""), Fld("Title", "string", FALSE, "")>>

Table(T) ==
  IF T \in {"Score", "ScorePtr"} THEN "scores"
  ELSE IF T = "Order" THEN "order"
  ELSE IF T = "Session" THEN "sessions"
  ELSE IF T = "User" THEN "users"
  ELSE "tasks"

\* reflect.ValueOf(ent).Kind(): records are handed over as pointers, Score by value
EntKind(T) == IF T = "Score" THEN "int" ELSE "ptr"

\* the kind of the value after `if value.Kind() == reflect.Ptr { value = value.Elem() }`
ElemKind(T) == IF T \in {"Score", "ScorePtr"} THEN "int" ELSE "struct"

Range(s) == {s[i] : i \in 1..Len(s)}

\* cmp.Or(a, b): the first non-empty string
CmpOr(a, b) == IF a # "" THEN a ELSE b

IntKinds   == {"int", "int8", "int16", "int32", "int64",
               "uint", "uint8", "uint16", "uint32", "uint64", "uintptr"}
FloatKinds == {"float32", "float64", "complex64", "complex128"}

Persistable(f) == ~(f.anon \/ f.kind \in {"ptr", "interface", "func", "struct"})

\* the storage type of unsigned integer fields falling through to ANY
ColType_UnsignedAsAny(f) ==
  IF f.kind = "string" THEN "TEXT"
  ELSE IF f.kind \in {"int", "int8", "int16", "int32", "int64"} THEN "INTEGER"
  ELSE IF f.kind \in FloatKinds THEN "REAL"
  ELSE IF f.kind = "bool" THEN "BOOLEAN"
  ELSE "ANY"

ColType(f) ==
  IF f.kind = "string" THEN "TEXT"
  ELSE IF f.kind \in IntKinds THEN "INTEGER"
  ELSE IF f.kind \in FloatKinds THEN "REAL"
  ELSE IF f.kind = "bool" THEN "BOOLEAN"
  ELSE "ANY"

\* the bool case of Fields defaulting to TRUE
ColDefault_BoolTrue(f) ==
  IF f.kind = "string" THEN CmpOr(f.tag, "''")
  ELSE IF f.kind \in IntKinds THEN CmpOr(f.tag, "0")
  ELSE IF f.kind \in FloatKinds THEN CmpOr(f.tag, "0")
  ELSE IF f.kind = "bool" THEN CmpOr(f.tag, "TRUE")
  ELSE CmpOr(f.tag, "NULL")

ColDefault(f) ==
  IF f.kind = "string" THEN CmpOr(f.tag, "''")
  ELSE IF f.kind \in IntKinds THEN CmpOr(f.tag, "0")
  ELSE IF f.kind \in FloatKinds THEN CmpOr(f.tag, "0")
  ELSE IF f.kind = "bool" THEN CmpOr(f.tag, "FALSE")
  ELSE CmpOr(f.tag, "NULL")

\* DynamicDB.Fields: names, storage types and defaults of the persistable fields
Columns(fs) ==
  [fields   |-> [i \in 1..Len(fs) |-> fs[i].name],
   types    |-> [i \in 1..Len(fs) |-> ColType(fs[i])],
   defaults |-> [i \in 1..Len(fs) |-> ColDefault(fs[i])]]

\* the loop of Fields over the declared fields of a struct
FieldsOf(shape) == Columns(SelectSeq(shape, Persistable))

Fields(T) ==
  IF ElemKind(T) # "struct"
    THEN [fields |-> <<>>, types |-> <<>>, defaults |-> <<>>]
    ELSE FieldsOf(Shape(T))

\* reflect.Value.FieldByName(name).IsValid(): a declared field, or one promoted
\* from an embedded struct
HasFieldIn(shape, name) ==
  \/ \E i \in 1..Len(shape) : shape[i].name = name
  \/ \E i \in 1..Len(shape) :
        /\ shape[i].anon /\ shape[i].name = "Model" /\ shape[i].kind = "struct"
        /\ name \in {ModelFields[j].name : j \in 1..Len(ModelFields)}

HasField(T, name) == HasFieldIn(Shape(T), name)

FieldKind(T, name) ==
  LET s == Shape(T)
  IN IF \E i \in 1..Len(s) : s[i].name = name
       THEN s[CHOOSE i \in 1..Len(s) : s[i].name = name].kind
       ELSE ModelFields[CHOOSE j \in 1..Len(ModelFields) : ModelFields[j].name = name].kind

\* the value of field `name` of the in-memory record ent
FieldValue(ent, name) ==
  IF name = "ID" THEN ent.ID
  ELSE IF name = "CreatedAt" THEN ent.CreatedAt
  ELSE IF name = "UpdatedAt" THEN ent.UpdatedAt
  ELSE ent.f[name]

\* *addr = v for the field `name` of ent
SetField(ent, name, v) ==
  IF name = "ID" THEN [ent EXCEPT !.ID = v]
  ELSE IF name = "CreatedAt" THEN [ent EXCEPT !.CreatedAt = v]
  ELSE IF name = "UpdatedAt" THEN [ent EXCEPT !.UpdatedAt = v]
  ELSE [ent EXCEPT !.f[name] = v]

\* DynamicDB.Reflect: the full name list, and the values and addresses of the
\* names that are fields of the record
Reflected(ent, names, valid) ==
  [fields |-> names,
   values |-> [i \in 1..Len(valid) |-> FieldValue(ent, valid[i])],
   addrs  |-> valid]

ValidOf(ent, shape, names) ==
  Reflected(ent, names, SelectSeq(names, LAMBDA n : HasFieldIn(shape, n)))

Reflect(ent) ==
  ValidOf(ent, Shape(ent.type), <<"ID", "CreatedAt", "UpdatedAt">> \o Fields(ent.type).fields)

\* DynamicDB.entID: the ID among the record's own declared fields
entID(ent) ==
  LET s == Shape(ent.type)
  IN IF ElemKind(ent.type) # "struct" THEN ""
     ELSE IF \E i \in 1..Len(s) : s[i].name = "ID" THEN ent.ID
     ELSE ""

\* Collection.New: a zero record of the bound type
ZeroValue(kind) ==
  IF kind = "string" THEN "" ELSE IF kind = "bool" THEN FALSE
  ELSE IF kind = "slice" THEN <<>> ELSE 0

New(T) ==
  [type |-> T, ID |-> "", CreatedAt |-> ZeroTime, UpdatedAt |-> ZeroTime,
   f |-> [n \in Range(Fields(T).fields) |-> ZeroValue(FieldKind(T, n))]]

\* ------------------------------------------------------- the SQL store
VARIABLES
  tables,   \* table name -> [exists, cols, rows]: the SQLite database file
  Ents,     \* DynamicDB.Ents: the registered-type list
  Repos,    \* DynamicDB.Repos: the types a Collection was created for
  clock,    \* the wall clock, in ticks
  last,     \* the outcome of the last call
  run       \* the calls of concurrent callers in progress, and where they started

vars == <<tables, Ents, Repos, clock, last, run>>

TableNames == {"tasks", "scores", "order", "sessions", "users"}
IdentityCols == <<"ID", "CreatedAt", "UpdatedAt">>

NoTable == [exists |-> FALSE, cols |-> <<>>, rows |-> <<>>, uniq |-> {}]

ColNames(tbl) == Range(IdentityCols) \cup {tbl.cols[i].name : i \in 1..Len(tbl.cols)}

DeclType(tbl, c) ==
  IF c = "ID" THEN "TEXT"
  ELSE IF c \in {"CreatedAt", "UpdatedAt"} THEN "TIMESTAMP"
  ELSE tbl.cols[CHOOSE i \in 1..Len(tbl.cols) : tbl.cols[i].name = c].type

\* CURRENT_TIMESTAMP: 'YYYY-MM-DD HH:MM:SS', the clock cut to whole seconds
CurrentTimestamp(now) == (now \div TicksPerSec) * TicksPerSec

\* the value a DEFAULT literal stores
Literal(lit) ==
  IF lit = "''" THEN ""
  ELSE IF lit = "0" THEN 0
  ELSE IF lit = "FALSE" THEN 0
  ELSE IF lit = "TRUE" THEN 1
  ELSE "NULL"

ColumnDefault(tbl, c, now) ==
  IF c = "ID" THEN "NULL"
  ELSE IF c \in {"CreatedAt", "UpdatedAt"} THEN CurrentTimestamp(now)
  ELSE Literal(tbl.cols[CHOOSE i \in 1..Len(tbl.cols) : tbl.cols[i].name = c].dflt)

\* a Go argument as the driver binds it: bool as 0/1, time.Time as text with
\* its full sub-second precision, strings and integers as they are
Bind(kind, v) == IF kind = "bool" THEN (IF v THEN 1 ELSE 0) ELSE v

\* a column value as rows.Scan stores it into a Go field of the given kind
Read(kind, decl, v) == IF kind = "bool" THEN v > 0 ELSE v

Index(seq, x) == CHOOSE i \in 1..Len(seq) : seq[i] = x

\* CREATE TABLE IF NOT EXISTS t (ID TEXT PRIMARY KEY, CreatedAt ..., UpdatedAt ...)
SqlCreateTable(tbl) ==
  IF tbl.exists THEN tbl ELSE [exists |-> TRUE, cols |-> <<>>, rows |-> <<>>, uniq |-> {}]

\* the statement as the engine runs it: a keyword in place of the table name is
\* a syntax error
Keywords == {"order"}

SqlCreate(tbls, t) ==
  IF t \in Keywords THEN [err |-> ErrSyntax, tables |-> tbls]
  ELSE [err |-> Nil, tables |-> [tbls EXCEPT ![t] = SqlCreateTable(@)]]

\* CREATE UNIQUE INDEX IF NOT EXISTS ... ON t (c)
SqlCreateUniqueIndex(tbl, c) ==
  IF ~tbl.exists THEN [err |-> ErrNoTable, tbl |-> tbl]
  ELSE IF c \notin ColNames(tbl) THEN [err |-> ErrNoColumn, tbl |-> tbl]
  ELSE IF \E i, k \in 1..Len(tbl.rows) : i # k /\ tbl.rows[i][c] = tbl.rows[k][c]
    THEN [err |-> ErrConstraint, tbl |-> tbl]
  ELSE [err |-> Nil, tbl |-> [tbl EXCEPT !.uniq = @ \cup {c}]]

\* ALTER TABLE t ADD COLUMN c type DEFAULT dflt: existing rows read the default
SqlAddColumn(tbl, c, type, dflt) ==
  IF ~tbl.exists THEN [err |-> ErrNoTable, tbl |-> tbl]
  ELSE IF c \in ColNames(tbl) THEN [err |-> ErrDupColumn, tbl |-> tbl]
  ELSE [err |-> Nil,
        tbl |-> [tbl EXCEPT
                  !.cols = Append(@, [name |-> c, type |-> type, dflt |-> dflt]),
                  !.rows = [i \in 1..Len(@) |->
                              [k \in ColNames(tbl) \cup {c} |->
                                 IF k = c THEN Literal(dflt) ELSE @[i][k]]]]]

\* INSERT INTO t (fields) VALUES (args) RETURNING fields
SqlFail(e, tbl) == [err |-> e, tbl |-> tbl, out |-> <<>>]

\* the table declared without PRIMARY KEY on ID
SqlInsertRow_NoPrimaryKey(tbl, fields, row) ==
  [err |-> Nil,
   tbl |-> [tbl EXCEPT !.rows = Append(@, row)],
   out |-> [i \in 1..Len(fields) |-> row[fields[i]]]]

SqlInsertRow(tbl, fields, row) ==
  IF \E i \in 1..Len(tbl.rows) : \E c \in {"ID"} \cup tbl.uniq : tbl.rows[i][c] = row[c]
    THEN SqlFail(ErrConstraint, tbl)
    ELSE [err |-> Nil,
          tbl |-> [tbl EXCEPT !.rows = Append(@, row)],
          out |-> [i \in 1..Len(fields) |-> row[fields[i]]]]

SqlInsert(tbl, fields, args, now) ==
  IF ~tbl.exists THEN SqlFail(ErrNoTable, tbl)
  ELSE IF \E i \in 1..Len(fields) : fields[i] \notin ColNames(tbl) THEN SqlFail(ErrNoColumn, tbl)
  ELSE IF Len(args) # Len(fields) THEN SqlFail(ErrSyntax, tbl)
  ELSE SqlInsertRow(tbl, fields,
                    [c \in ColNames(tbl) |->
                       IF c \in Range(fields) THEN args[Index(fields, c)]
                       ELSE ColumnDefault(tbl, c, now)])

\* rows.Scan(addrs...): column i of the row into destination i
RECURSIVE ScanInto(_, _, _, _, _)
ScanInto(ent, tbl, cols, addrs, out) ==
  IF addrs = <<>> THEN ent
  ELSE ScanInto(SetField(ent, Head(addrs),
                         Read(FieldKind(ent.type, Head(addrs)), DeclType(tbl, Head(cols)), Head(out))),
                tbl, Tail(cols), Tail(addrs), Tail(out))

\* the arguments of a statement, as bound from the record's values
BoundOf(T, r) ==
  [i \in 1..Len(r.values) |-> Bind(FieldKind(T, r.addrs[i]), r.values[i])]

BoundValues(ent) == BoundOf(ent.type, Reflect(ent))

\* ---------------------------------------------------------- DynamicDB
\* DynamicDB.Register
RECURSIVE AddColumns(_, _, _)
AddColumns(tbl, fs, i) ==
  IF i > Len(fs.fields) THEN tbl
  ELSE AddColumns(SqlAddColumn(tbl, fs.fields[i], fs.types[i], fs.defaults[i]).tbl, fs, i + 1)

Registered(created, ents, T) ==
  IF EntKind(T) \notin {"ptr", "struct"}
    THEN [err |-> ErrNotStruct, tables |-> created, Ents |-> ents]
    ELSE [err    |-> Nil,
          tables |-> [created EXCEPT ![Table(T)] = AddColumns(@, Fields(T), 1)],
          Ents   |-> Append(ents, T)]

\* Register issuing CREATE TABLE without IF NOT EXISTS
Register_PlainCreate(tbls, ents, T) ==
  IF tbls[Table(T)].exists
    THEN [err |-> "table already exists", tables |-> tbls, Ents |-> ents]
    ELSE Registered([tbls EXCEPT ![Table(T)] = SqlCreateTable(@)], ents, T)

Created(c, ents, T) ==
  IF c.err # Nil THEN [err |-> ErrCreateTable, tables |-> c.tables, Ents |-> ents]
  ELSE Registered(c.tables, ents, T)

Register(tbls, ents, T) == Created(SqlCreate(tbls, Table(T)), ents, T)

\* DynamicDB.Insert
Inserted(tbls, ent, r, res) ==
  IF res.err # Nil THEN [err |-> res.err, tables |-> tbls, ent |-> ent]
  ELSE IF Len(r.addrs) # Len(res.out)
    THEN [err |-> ErrSyntax, tables |-> [tbls EXCEPT ![Table(ent.type)] = res.tbl], ent |-> ent]
  ELSE [err    |-> Nil,
        tables |-> [tbls EXCEPT ![Table(ent.type)] = res.tbl],
        ent    |-> ScanInto(ent, res.tbl, r.fields, r.addrs, res.out)]

InsertOf(tbls, ent, r, now) ==
  Inserted(tbls, ent, r, SqlInsert(tbls[Table(ent.type)], r.fields, BoundOf(ent.type, r), now))

Insert(tbls, ent, now) == InsertOf(tbls, ent, Reflect(ent), now)

\* SELECT fields FROM t <clause>; the clause is empty or WHERE col = ?
NoClause == [col |-> "", val |-> ""]

Matches(row, clause) == clause.col = "" \/ row[clause.col] = clause.val

Project(hit, fields) ==
  [err  |-> Nil,
   rows |-> [i \in 1..Len(hit) |-> [j \in 1..Len(fields) |-> hit[i][fields[j]]]]]

SqlSelect(tbl, fields, clause) ==
  IF ~tbl.exists THEN [err |-> ErrNoTable, rows |-> <<>>]
  ELSE IF \/ \E i \in 1..Len(fields) : fields[i] \notin ColNames(tbl)
          \/ (clause.col # "" /\ clause.col \notin ColNames(tbl))
    THEN [err |-> ErrNoColumn, rows |-> <<>>]
  ELSE Project(SelectSeq(tbl.rows, LAMBDA r : Matches(r, clause)), fields)

\* UPDATE t SET c1 = ?, ..., UpdatedAt = CURRENT_TIMESTAMP WHERE ID = ?
\* RETURNING UpdatedAt.  sets[i] = <<column, "?" or "CURRENT_TIMESTAMP">>; of
\* several assignments to one column the rightmost counts.
Placeholders(sets, j) == Cardinality({i \in 1..j : sets[i][2] = "?"})

Rightmost(sets, c) ==
  CHOOSE i \in 1..Len(sets) :
    /\ sets[i][1] = c
    /\ \A k \in 1..Len(sets) : sets[k][1] = c => k <= i

Assigned(sets, args, i, now) ==
  IF sets[i][2] = "?" THEN args[Placeholders(sets, i)] ELSE CurrentTimestamp(now)

SetRow(tbl, row, sets, args, now) ==
  [c \in ColNames(tbl) |->
     IF \E i \in 1..Len(sets) : sets[i][1] = c
       THEN Assigned(sets, args, Rightmost(sets, c), now)
       ELSE row[c]]

SqlUpdated(tbl, rows2, hitIdx) ==
  IF \E i, k \in 1..Len(rows2) : i # k /\ \E c \in {"ID"} \cup tbl.uniq : rows2[i][c] = rows2[k][c]
    THEN SqlFail(ErrConstraint, tbl)
    ELSE [err |-> Nil,
          tbl |-> [tbl EXCEPT !.rows = rows2],
          out |-> IF hitIdx = {} THEN <<>>
                  ELSE <<rows2[CHOOSE i \in hitIdx : TRUE]["UpdatedAt"]>>]

SqlUpdateWhere(tbl, sets, args, now, hitIdx) ==
  SqlUpdated(tbl,
             [i \in 1..Len(tbl.rows) |->
                IF i \in hitIdx THEN SetRow(tbl, tbl.rows[i], sets, args, now)
                ELSE tbl.rows[i]],
             hitIdx)

\* the UPDATE statement without its WHERE clause: every row is hit
SqlUpdate_NoWhere(tbl, sets, args, now) ==
  IF ~tbl.exists THEN SqlFail(ErrNoTable, tbl)
  ELSE IF \E i \in 1..Len(sets) : sets[i][1] \notin ColNames(tbl) THEN SqlFail(ErrNoColumn, tbl)
  ELSE IF Len(args) # Placeholders(sets, Len(sets)) + 1 THEN SqlFail(ErrSyntax, tbl)
  ELSE SqlUpdateWhere(tbl, sets, args, now, 1..Len(tbl.rows))

SqlUpdate(tbl, sets, args, now) ==
  IF ~tbl.exists THEN SqlFail(ErrNoTable, tbl)
  ELSE IF \E i \in 1..Len(sets) : sets[i][1] \notin ColNames(tbl) THEN SqlFail(ErrNoColumn, tbl)
  ELSE IF Len(args) # Placeholders(sets, Len(sets)) + 1 THEN SqlFail(ErrSyntax, tbl)
  ELSE SqlUpdateWhere(tbl, sets, args, now,
                      {i \in 1..Len(tbl.rows) : tbl.rows[i]["ID"] = args[Len(args)]})

\* a DELETE statement: the grammar is DELETE FROM <table> WHERE ID = ?
SqlDelete(tbls, stmt, arg) ==
  IF /\ Len(stmt) = 7
     /\ stmt[1] = "DELETE" /\ stmt[2] = "FROM" /\ stmt[3] \in TableNames
     /\ SubSeq(stmt, 4, 7) = <<"WHERE", "ID", "=", "?">>
    THEN IF ~tbls[stmt[3]].exists THEN [err |-> ErrNoTable, tables |-> tbls]
         ELSE [err    |-> Nil,
               tables |-> [tbls EXCEPT ![stmt[3]].rows =
                             SelectSeq(@, LAMBDA r : r["ID"] # arg)]]
    ELSE [err |-> ErrSyntax, tables |-> tbls]

\* DynamicDB.Get
\* Scan leaving the record as it is, without error, when the query has no row
Got_ZeroRowsNil(ent, tbl, r, sel) ==
  IF sel.err # Nil THEN [err |-> sel.err, ent |-> ent]
  ELSE IF sel.rows = <<>> THEN [err |-> Nil, ent |-> ent]
  ELSE [err |-> Nil, ent |-> ScanInto(ent, tbl, r.fields, r.addrs, sel.rows[1])]

Got(ent, tbl, r, sel) ==
  IF sel.err # Nil THEN [err |-> sel.err, ent |-> ent]
  ELSE IF sel.rows = <<>> THEN [err |-> ErrNoRows, ent |-> ent]
  ELSE [err |-> Nil, ent |-> ScanInto(ent, tbl, r.fields, r.addrs, sel.rows[1])]

GetOf(tbl, id, ent, r) ==
  Got(ent, tbl, r, SqlSelect(tbl, r.fields, [col |-> "ID", val |-> id]))

Get(tbls, id, ent) == GetOf(tbls[Table(ent.type)], id, ent, Reflect(ent))

\* DynamicDB.Update
\* Update running its statement with Exec: no row to scan is no error
Updated_ZeroRowsNil(tbls, ent, res) ==
  IF res.err # Nil THEN [err |-> res.err, tables |-> tbls, ent |-> ent]
  ELSE IF res.out = <<>>
    THEN [err |-> Nil, tables |-> [tbls EXCEPT ![Table(ent.type)] = res.tbl], ent |-> ent]
  ELSE [err    |-> Nil,
        tables |-> [tbls EXCEPT ![Table(ent.type)] = res.tbl],
        ent    |-> ScanInto(ent, res.tbl, <<"UpdatedAt">>, <<"UpdatedAt">>, res.out)]

Updated(tbls, ent, res) ==
  IF res.err # Nil THEN [err |-> res.err, tables |-> tbls, ent |-> ent]
  ELSE IF res.out = <<>>
    THEN [err |-> ErrNoRows, tables |-> [tbls EXCEPT ![Table(ent.type)] = res.tbl], ent |-> ent]
  ELSE [err    |-> Nil,
        tables |-> [tbls EXCEPT ![Table(ent.type)] = res.tbl],
        ent    |-> ScanInto(ent, res.tbl, <<"UpdatedAt">>, <<"UpdatedAt">>, res.out)]

UpdateSets(fields) ==
  [i \in 1..(Len(fields) + 1) |->
     IF i <= Len(fields) THEN <<fields[i], "?">>
     ELSE <<"UpdatedAt", "CURRENT_TIMESTAMP">>]

UpdateOf(tbls, ent, r, now) ==
  Updated(tbls, ent,
          SqlUpdate(tbls[Table(ent.type)], UpdateSets(r.fields),
                    Append(BoundOf(ent.type, r), r.values[Index(r.fields, "ID")]), now))

\* Update binding the values of a fresh record instead of the record's own
Update_FreshValues(tbls, ent, now) ==
  UpdateOf(tbls, ent, Reflect([ent EXCEPT !.f = New(ent.type).f]), now)

Update(tbls, ent, now) == UpdateOf(tbls, ent, Reflect(ent), now)

\* DynamicDB.Delete
Delete(tbls, ent) ==
  SqlDelete(tbls, <<"DELETE", Table(ent.type), "WHERE", "ID", "=", "?">>, entID(ent))

\* ------------------------------------------------------------ iteration
\* a visitor: Search's (collect every row), Find's (load one row, then stop)
\* or a caller's that counts its rows and returns failWith on row number failAt
Visit(v, acc, row) ==
  IF v.kind = "search"
    THEN [err |-> Nil,
          acc |-> Append(acc, ScanInto(New(v.type), v.tbl, v.fields,
                                       Reflect(New(v.type)).addrs, row))]
  ELSE IF v.kind = "find"
    THEN [err |-> ErrIterStop,
          acc |-> <<ScanInto(acc[1], v.tbl, v.fields, Reflect(acc[1]).addrs, row)>>]
  ELSE [err |-> IF Len(acc) + 1 = v.failAt THEN v.failWith ELSE Nil,
        acc |-> Append(acc, row[1])]

Visitor(tbls, T, kind, failAt, failWith) ==
  [kind |-> kind, failAt |-> failAt, failWith |-> failWith, type |-> T,
   tbl |-> tbls[Table(T)], fields |-> Reflect(New(T)).fields]

\* Iter.All
\* Iter.All leaving the loop after the first row
All_FirstRowOnly(rows, v, acc) ==
  IF rows = <<>> THEN [err |-> Nil, acc |-> acc] ELSE Visit(v, acc, Head(rows))

RECURSIVE All(_, _, _)
All(rows, v, acc) ==
  IF rows = <<>> THEN [err |-> Nil, acc |-> acc]
  ELSE LET r == Visit(v, acc, Head(rows))
       IN IF r.err # Nil THEN r ELSE All(Tail(rows), v, r.acc)

\* Iter.Page
\* Iter.Page comparing the row count with limit instead of limit+1
RECURSIVE PageLoop_StopsAtLimit(_, _, _, _, _)
PageLoop_StopsAtLimit(rows, count, limit, v, acc) ==
  IF rows = <<>> THEN [more |-> FALSE, err |-> Nil, acc |-> acc]
  ELSE IF count + 1 = limit THEN [more |-> TRUE, err |-> Nil, acc |-> acc]
  ELSE LET r == Visit(v, acc, Head(rows))
       IN IF r.err # Nil THEN [more |-> FALSE, err |-> r.err, acc |-> r.acc]
          ELSE PageLoop_StopsAtLimit(Tail(rows), count + 1, limit, v, r.acc)

RECURSIVE PageLoop(_, _, _, _, _)
PageLoop(rows, count, limit, v, acc) ==
  IF rows = <<>> THEN [more |-> FALSE, err |-> Nil, acc |-> acc]
  ELSE IF count + 1 = limit + 1 THEN [more |-> TRUE, err |-> Nil, acc |-> acc]
  ELSE LET r == Visit(v, acc, Head(rows))
       IN IF r.err # Nil THEN [more |-> FALSE, err |-> r.err, acc |-> r.acc]
          ELSE PageLoop(Tail(rows), count + 1, limit, v, r.acc)

PageRows(sel, limit, v) ==
  IF sel.err # Nil THEN [more |-> FALSE, err |-> sel.err, acc |-> <<>>]
  ELSE PageLoop(sel.rows, 0, limit, v, <<>>)

Page(tbls, T, limit, failAt) ==
  PageRows(SqlSelect(tbls[Table(T)], Reflect(New(T)).fields, NoClause), limit,
           Visitor(tbls, T, "count", failAt, ErrVisitor))

\* cursor.Iter
NoRowsIsNil(res) == IF res.err = ErrNoRows THEN [err |-> Nil, acc |-> res.acc] ELSE res

IterRows(sel, v, acc) ==
  IF sel.err # Nil THEN [err |-> sel.err, acc |-> acc] ELSE All(sel.rows, v, acc)

\* cursor.Iter leaving the caller's query out of the statement
Iter_WithoutQuery(tbls, T, clause, kind, acc) ==
  NoRowsIsNil(IterRows(SqlSelect(tbls[Table(T)], Reflect(New(T)).fields, NoClause),
                       Visitor(tbls, T, kind, 0, Nil), acc))

\* cursor.Iter with the visitor v
IterWith(tbls, T, clause, v, acc) ==
  NoRowsIsNil(IterRows(SqlSelect(tbls[Table(T)], Reflect(New(T)).fields, clause), v, acc))

Iter(tbls, T, clause, kind, acc) ==
  IterWith(tbls, T, clause, Visitor(tbls, T, kind, 0, Nil), acc)

\* Query(...).All(fn) with a caller's visitor
QueryAll(tbls, T, clause, v) ==
  IterRows(SqlSelect(tbls[Table(T)], Reflect(New(T)).fields, clause), v, <<>>)

\* cursor.One: one fresh record, the first row of the query scanned into it
OneOf(tbl, ent, r, clause) == Got(ent, tbl, r, SqlSelect(tbl, r.fields, clause))

One(tbls, T, clause) == OneOf(tbls[Table(T)], New(T), Reflect(New(T)), clause)

\* ----------------------------------------------------------- Collection
\* Collection.Count
Count(tbls, T) == IF tbls[Table(T)].exists THEN Len(tbls[Table(T)].rows) ELSE 0

\* Collection.Search: `return apps, Cursor(...).Iter(...)` reads the captured
\* variable apps after the call has run, so the slice returned is the filled one
Search(tbls, T, clause) == Iter(tbls, T, clause, "search", <<>>)

\* Collection.Find
Found(r) == [err |-> r.err, ent |-> r.acc[1]]

Find(tbls, T, clause) == Found(Iter(tbls, T, clause, "find", <<New(T)>>))

\* uuid.NewString(): an identifier no stored row has
UuidPool == <<"u1", "u2", "u3">>

Stored(tbls, t) == {tbls[t].rows[i]["ID"] : i \in 1..Len(tbls[t].rows)}

\* Collection.Insert, reading the clock at now1 and then at now2
\* Collection.Insert generating the identifier but leaving the timestamps alone
CollectionInsert_NoStamps(tbls, ent, uuid, now1, now2) ==
  Insert(tbls, IF ent.ID = "" THEN [ent EXCEPT !.ID = uuid] ELSE ent, now2)

\* Collection.Insert generating an identifier whatever the record holds
CollectionInsert_AlwaysGenerates(tbls, ent, uuid, now1, now2) ==
  Insert(tbls, [ent EXCEPT !.ID = uuid, !.CreatedAt = now1, !.UpdatedAt = now2], now2)

CollectionInsert(tbls, ent, uuid, now1, now2) ==
  Insert(tbls,
         IF ent.ID = ""
           THEN [ent EXCEPT !.ID = uuid, !.CreatedAt = now1, !.UpdatedAt = now2]
           ELSE ent,
         now2)

\* -------------------------------------------------------------- callers
NoEnt == [type |-> "", ID |-> "", CreatedAt |-> ZeroTime, UpdatedAt |-> ZeroTime, f |-> <<>>]

\* the outcome of a call: the error returned, the record after and before the
\* call, the identifiers produced, a count, Page's more, the argument
Outcome(op, T, err, ent, pre, ents, n, more, arg) ==
  [op |-> op, type |-> T, err |-> err, ent |-> ent, pre |-> pre,
   ents |-> ents, n |-> n, more |-> more, arg |-> arg]

\* the field values a caller gives a record
FieldVals(T) ==
  IF T = "Task" THEN {[Title |-> t] : t \in Titles}
  ELSE IF T = "Session" THEN {[UserID |-> u] : u \in {"u1"}}
  ELSE {[Title |-> t, Done |-> d] : t \in Titles, d \in BOOLEAN}

\* a record as callers build it: the zero Model, or DynamicDB.NewModel(id)
Built(T, id, stamped, f, now) ==
  [type |-> T, ID |-> id,
   CreatedAt |-> IF stamped THEN now ELSE ZeroTime,
   UpdatedAt |-> IF stamped THEN now ELSE ZeroTime,
   f |-> f]

\* the records a caller passes to Insert: new ones, or ones with an identifier
\* of the caller's choice
InsertInputs(T, now) ==
  {Built(T, "", FALSE, f, now) : f \in FieldVals(T)}
    \cup {Built(T, id, st, f, now) : id \in CallerIds, st \in BOOLEAN, f \in FieldVals(T)}

\* the records a caller holds: loaded by Get
Loaded(tbls, T) ==
  {g.ent : g \in {r \in {Get(tbls, id, New(T)) : id \in Ids} : r.err = Nil}}

\* the records a caller passes to Update: loaded and edited, built around a
\* known identifier with NewModel, or never inserted
UpdateInputs(tbls, T, now) ==
  {[e EXCEPT !.f = f] : e \in Loaded(tbls, T), f \in FieldVals(T)}
    \cup {Built(T, id, TRUE, f, now) : id \in CallerIds, f \in FieldVals(T)}
    \cup {Built(T, "", FALSE, f, now) : f \in FieldVals(T)}

\* the records a caller passes to Delete: loaded, built around an identifier,
\* or never inserted
DeleteInputs(tbls, T, now) ==
  Loaded(tbls, T) \cup {Built(T, id, TRUE, New(T).f, now) : id \in CallerIds}
                  \cup {New(T)}

\* the clauses callers search with: none, WHERE Title = ?, WHERE Done = ?
Clauses == {NoClause} \cup {[col |-> "Title", val |-> t] : t \in {"a", "b"}}
                      \cup {[col |-> "Done", val |-> Bind("bool", d)] : d \in BOOLEAN}

Collections == Range(Ents)

FreeUuids(tbls, t) == {i \in 1..Len(UuidPool) : UuidPool[i] \notin Stored(tbls, t)}

First(free) == CHOOSE i \in free : \A k \in free : i <= k

\* the effect of a call on the store, and its outcome
Wrote(op, T, pre, r) ==
  /\ tables' = r.tables
  /\ last' = Outcome(op, T, r.err, r.ent, pre, <<>>, 0, FALSE, NoClause)

Answered(op, T, r, ids, n, more, arg) ==
  /\ last' = Outcome(op, T, r.err, r.ent, NoEnt, ids, n, more, arg)
  /\ UNCHANGED <<tables, Ents, Repos, clock, run>>

\* no concurrent callers at work
Idle == [phase |-> "idle", base |-> [t \in TableNames |-> NoTable], init |-> <<>>, calls |-> <<>>]

\* ------------------------------------------------------------- actions
Init ==
  /\ tables = [t \in TableNames |-> NoTable]
  /\ Ents = <<>>
  /\ Repos = [t \in TableNames |-> ""]
  /\ clock = StartTick
  /\ last = Outcome("Dynamic", "", Nil, NoEnt, NoEnt, <<>>, 0, FALSE, NoClause)
  /\ run = Idle

Tick ==
  /\ clock < MaxClock
  /\ clock' = clock + 1
  /\ UNCHANGED <<tables, Ents, Repos, last, run>>

\* Manage: Register the type, then file the Collection under its table name
Managed(T, r) ==
  /\ tables' = r.tables
  /\ Ents' = r.Ents
  /\ Repos' = [Repos EXCEPT ![Table(T)] = T]
  /\ last' = Outcome("Register", T, r.err, NoEnt, NoEnt, <<>>, 0, FALSE, NoClause)

ManageAct(T) ==
  /\ Len(Ents) < MaxEnts
  /\ Managed(T, Register(tables, Ents, T))
  /\ UNCHANGED <<clock, run>>

\* Collection.Insert(ent), the clock advancing by d between its two readings
DoInsert(T, ent, d, cap) ==
  /\ T \in Collections
  /\ ent.ID # "" => d = 0
  /\ Len(tables[Table(T)].rows) < cap
  /\ clock + d <= MaxClock
  /\ ent.ID = "" => FreeUuids(tables, Table(T)) # {}
  /\ Wrote("Insert", T, ent,
           CollectionInsert(tables, ent,
                            IF ent.ID = "" THEN UuidPool[First(FreeUuids(tables, Table(T)))] ELSE "",
                            clock, clock + d))
  /\ clock' = clock + d
  /\ UNCHANGED <<Ents, Repos, run>>

InsertAct(T, ent, d) == DoInsert(T, ent, d, MaxRows)

UpdateAct(T, ent) ==
  /\ T \in Collections
  /\ Wrote("Update", T, ent, Update(tables, ent, clock))
  /\ UNCHANGED <<Ents, Repos, clock, run>>

DeleteResult(ent, r) == [err |-> r.err, tables |-> r.tables, ent |-> ent]

DeleteAct(T, ent) ==
  /\ T \in Collections
  /\ Wrote("Delete", T, ent, DeleteResult(ent, Delete(tables, ent)))
  /\ UNCHANGED <<Ents, Repos, clock, run>>

Next ==
  \/ Tick
  \/ \E T \in Types : ManageAct(T)
  \/ \E T \in Types, d \in 0..1 : \E ent \in InsertInputs(T, clock) : InsertAct(T, ent, d)
  \/ \E T \in Types : \E ent \in UpdateInputs(tables, T, clock) : UpdateAct(T, ent)
  \/ \E T \in Types : \E ent \in DeleteInputs(tables, T, clock) : DeleteAct(T, ent)

Spec == Init /\ [][Next]_vars

\* ------------------------------------------------- reading a filled store
\* Collection.Insert of a new record, filling the table that is read
FillAct(T, f) == DoInsert(T, Built(T, "", FALSE, f, clock), 0, ReadRows)

GetAct(T, id) ==
  /\ T \in Collections
  /\ Answered("Get", T, Get(tables, id, New(T)), <<>>, 0, FALSE, [col |-> "ID", val |-> id])

IdsOf(r) == [err |-> r.err, ent |-> NoEnt, ids |-> [i \in 1..Len(r.acc) |-> r.acc[i].ID]]

Listed(op, T, r, arg) == Answered(op, T, r, r.ids, Len(r.ids), FALSE, arg)

SearchAct(T, clause) ==
  /\ T \in Collections
  /\ Listed("Search", T, IdsOf(Search(tables, T, clause)), clause)

FindAct(T, clause) ==
  /\ T \in Collections
  /\ Answered("Find", T, Find(tables, T, clause), <<>>, 0, FALSE, clause)

OneAct(T, clause) ==
  /\ T \in Collections
  /\ Answered("One", T, One(tables, T, clause), <<>>, 0, FALSE, clause)

CountAct(T) ==
  /\ T \in Collections
  /\ Answered("Count", T, [err |-> Nil, ent |-> NoEnt], <<>>, Count(tables, T), FALSE, NoClause)

\* Page over SELECT ... FROM <table>, with a visitor failing on row failAt (0: never)
Failing(failAt, failWith) ==
  [col |-> "", val |-> IF failAt = 0 THEN "" ELSE "fails", failAt |-> failAt, failWith |-> failWith]

Paged(T, r, limit, failAt) ==
  Answered("Page", T, [err |-> r.err, ent |-> NoEnt], r.acc, limit, r.more,
           Failing(failAt, ErrVisitor))

\* Iter.All and cursor.Iter over SELECT ... FROM <table>, with a visitor
\* returning failWith on row failAt (0: never)
Visited(op, T, r, failAt, failWith) ==
  Answered(op, T, [err |-> r.err, ent |-> NoEnt], r.acc, 0, FALSE, Failing(failAt, failWith))

VisitorErrors == {ErrVisitor, ErrNoRows}

AllAct(T, failAt, failWith) ==
  /\ T \in Collections
  /\ Visited("All", T, QueryAll(tables, T, NoClause, Visitor(tables, T, "count", failAt, failWith)),
             failAt, failWith)

IterAct(T, failAt, failWith) ==
  /\ T \in Collections
  /\ Visited("Iter", T,
             IterWith(tables, T, NoClause, Visitor(tables, T, "count", failAt, failWith), <<>>),
             failAt, failWith)

PageAct(T, limit, failAt) ==
  /\ T \in Collections
  /\ Paged(T, Page(tables, T, limit, failAt), limit, failAt)

NextRead ==
  \/ \E T \in Types : ManageAct(T)
  \/ \E T \in Types : \E f \in FieldVals(T) : FillAct(T, f)
  \/ \E T \in Types, id \in Ids : GetAct(T, id)
  \/ \E T \in Types, c \in Clauses : SearchAct(T, c)
  \/ \E T \in Types, c \in Clauses : FindAct(T, c)
  \/ \E T \in Types, c \in Clauses : OneAct(T, c)
  \/ \E T \in Types : CountAct(T)
  \/ \E T \in Types, limit \in 0..MaxLimit, failAt \in 0..ReadRows : PageAct(T, limit, failAt)
  \/ \E T \in Types, failAt \in 0..ReadRows, e \in VisitorErrors : AllAct(T, failAt, e)
  \/ \E T \in Types, failAt \in 0..ReadRows, e \in VisitorErrors : IterAct(T, failAt, e)

SpecRead == Init /\ [][NextRead]_vars

\* DynamicDB.Register called directly, with any type that implements Entity
RegisteredAs(T, r) ==
  /\ tables' = r.tables
  /\ Ents' = r.Ents
  /\ last' = Outcome("Register", T, r.err, NoEnt, NoEnt, <<>>, 0, FALSE, NoClause)

RegisterAct(T) ==
  /\ Len(Ents) < MaxEnts
  /\ RegisteredAs(T, Register(tables, Ents, T))
  /\ UNCHANGED <<Repos, clock, run>>

NextSchema ==
  \/ \E T \in EntTypes : RegisterAct(T)
  \/ \E T \in Types : \E f \in FieldVals(T) : FillAct(T, f)

SpecSchema == Init /\ [][NextSchema]_vars

\* --------------------------------------------------- concurrent callers
\* uuid.NewString() of caller number p: unlike every other identifier
FreshUuids == <<"n1", "n2", "n3">>

\* a call in progress: pc is "start" before its SQL statement ran, "done" after
Call(op, T, ent, arg, uuid) ==
  [op |-> op, type |-> T, ent |-> ent, arg |-> arg, uuid |-> uuid,
   pc |-> "start", res |-> [err |-> Nil, ent |-> NoEnt, ids |-> <<>>]]

Writes(r) == [err |-> r.err, tables |-> r.tables, ent |-> r.ent, ids |-> <<>>]

Reads(tbls, r, ids) == [err |-> r.err, tables |-> tbls, ent |-> r.ent, ids |-> ids]

\* the one statement of a call, run against the store as it is now
Apply(tbls, c, now) ==
  IF c.op = "Insert" THEN Writes(CollectionInsert(tbls, c.ent, c.uuid, now, now))
  ELSE IF c.op = "Update" THEN Writes(Update(tbls, c.ent, now))
  ELSE IF c.op = "Delete" THEN Writes(DeleteResult(c.ent, Delete(tbls, c.ent)))
  ELSE IF c.op = "Get" THEN Reads(tbls, Get(tbls, c.arg.val, New(c.type)), <<>>)
  ELSE Reads(tbls, IdsOf(Search(tbls, c.type, c.arg)), IdsOf(Search(tbls, c.type, c.arg)).ids)

Stepped(c, r) ==
  [tables |-> r.tables,
   call   |-> [c EXCEPT !.pc = "done", !.res = [err |-> r.err, ent |-> r.ent, ids |-> r.ids]]]

\* Insert taking its identifier from a row count read by a statement of its own
StepCall_CountThenInsert(tbls, c, now) ==
  IF c.op = "Insert" /\ c.ent.ID = "" /\ c.pc = "start"
    THEN [tables |-> tbls,
          call   |-> [c EXCEPT !.pc = "counted", !.uuid = UuidPool[Count(tbls, c.type) + 1]]]
    ELSE Stepped(c, Apply(tbls, c, now))

\* the next step of a call against the store
StepCall(tbls, c, now) == Stepped(c, Apply(tbls, c, now))

\* a call run from start to end with no other caller in between
RECURSIVE RunCall(_, _, _)
RunNext(s, now) == RunCall(s.tables, s.call, now)

RunCall(tbls, c, now) ==
  IF c.pc = "done" THEN [tables |-> tbls, call |-> c] ELSE RunNext(StepCall(tbls, c, now), now)

\* the calls run one after another in the given order
RECURSIVE Serial(_, _, _, _)
SerialNext(s, calls, order, now) ==
  Serial(s.tables, [calls EXCEPT ![Head(order)] = s.call], Tail(order), now)

Serial(tbls, calls, order, now) ==
  IF order = <<>> THEN [tables |-> tbls, calls |-> calls]
  ELSE SerialNext(RunCall(tbls, calls[Head(order)], now), calls, order, now)

Orders == {o \in [1..NProcs -> 1..NProcs] : \A i, j \in 1..NProcs : o[i] = o[j] => i = j}

\* the calls a caller may make on a collection
ConcCalls(tbls, T, now, uuid) ==
  {Call("Insert", T, e, NoClause, uuid) :
     e \in {Built(T, id, FALSE, f, now) : id \in {"", "u2"}, f \in FieldVals(T)}}
  \cup {Call("Update", T, [e EXCEPT !.f = f], NoClause, "") :
          e \in Loaded(tbls, T), f \in FieldVals(T)}
  \cup {Call("Update", T, Built(T, "u2", TRUE, New(T).f, now), NoClause, "")}
  \cup {Call("Delete", T, e, NoClause, "") : e \in Loaded(tbls, T)}
  \cup {Call("Get", T, NoEnt, [col |-> "ID", val |-> id], "") : id \in CallerIds}
  \cup {Call("Search", T, NoEnt, c, "") : c \in {NoClause, [col |-> "Title", val |-> "a"]}}

SeedAct(T, f) ==
  /\ run.phase = "idle"
  /\ DoInsert(T, Built(T, "", FALSE, f, clock), 0, ConcRows)

StartAct(T) ==
  /\ run.phase = "idle"
  /\ T \in Collections
  /\ \E calls \in [1..NProcs -> UNION {ConcCalls(tables, T, clock, FreshUuids[p]) : p \in 1..NProcs}] :
       /\ \A p \in 1..NProcs : calls[p] \in ConcCalls(tables, T, clock, FreshUuids[p])
       /\ run' = [phase |-> "running", base |-> tables, init |-> calls, calls |-> calls]
  /\ UNCHANGED <<tables, Ents, Repos, clock, last>>

Stepping(p, s) ==
  /\ tables' = s.tables
  /\ run' = [run EXCEPT !.calls[p] = s.call]

StepAct(p) ==
  /\ run.phase = "running"
  /\ run.calls[p].pc # "done"
  /\ Stepping(p, StepCall(tables, run.calls[p], clock))
  /\ UNCHANGED <<Ents, Repos, clock, last>>

NextConc ==
  \/ \E T \in Types : run.phase = "idle" /\ ManageAct(T)
  \/ \E T \in Types : \E f \in FieldVals(T) : SeedAct(T, f)
  \/ \E T \in Types : StartAct(T)
  \/ \E p \in 1..NProcs : StepAct(p)

SpecConc == Init /\ [][NextConc]_vars

\* ------------------------------------------------- concurrent signups
\* authentication.Manage: the users and sessions collections, then the two
\* unique indexes, whose errors are dropped
Indexed(tbl) == SqlCreateUniqueIndex(SqlCreateUniqueIndex(tbl, "Handle").tbl, "Email").tbl

AuthManaged(r) ==
  /\ tables' = [r.tables EXCEPT !["users"] = Indexed(@)]
  /\ Ents' = r.Ents
  /\ Repos' = [Repos EXCEPT !["users"] = "User", !["sessions"] = "Session"]
  /\ last' = Outcome("Manage", "User", Nil, NoEnt, NoEnt, <<>>, 0, FALSE, NoClause)

SessionRegistered(r) == Register(r.tables, r.Ents, "Session")

AuthManageAct ==
  /\ run.phase = "idle"
  /\ Len(Ents) + 2 <= MaxEnts
  /\ AuthManaged(SessionRegistered(Register(tables, Ents, "User")))
  /\ UNCHANGED <<clock, run>>

\* the signup forms posted: a handle (also name and email), possibly empty,
\* and a password, "long" standing for one of more than 72 bytes
Form(h, pw) == [name |-> h, handle |-> h, email |-> h, password |-> pw]

Forms == {Form(h, pw) : h \in {"", "a", "b"}, pw \in {"pw", "long"}}

ErrMissing == "missing required fields"
ErrPasswordTooLong == "bcrypt: password length exceeds 72 bytes"

\* the record Collection.Signup builds
SignupUser(form, isAdmin) ==
  [type |-> "User", ID |-> "", CreatedAt |-> ZeroTime, UpdatedAt |-> ZeroTime,
   f |-> [Avatar   |-> <<"https://robohash.org/", form.email, "?set=set4">>,
          Name     |-> form.name,
          Email    |-> form.email,
          Handle   |-> form.handle,
          IsAdmin  |-> isAdmin,
          PassHash |-> <<"bcrypt", form.password>>]]

\* uuid.NewString() for the session of the caller whose user got uuid
SessionUuid(uuid) == [n1 |-> "s1", n2 |-> "s2", n3 |-> "s3"][uuid]

Ended(tbls, c, err, ent) ==
  [tables |-> tbls,
   call   |-> [c EXCEPT !.pc = "done", !.res = [err |-> err, ent |-> ent, ids |-> <<>>]]]

\* Users.Insert returned r
UserInserted(tbls, c, r) ==
  IF r.err # Nil THEN Ended(tbls, c, r.err, NoEnt)
  ELSE [tables |-> r.tables, call |-> [c EXCEPT !.pc = "signed", !.ent = r.ent]]

\* Sessions.Insert returned r
SessionInserted(tbls, c, r) ==
  IF r.err # Nil THEN Ended(tbls, c, r.err, c.ent) ELSE Ended(r.tables, c, Nil, c.ent)

\* HandleSignup up to its next statement against the store: Users.Count(),
\* then Users.Insert inside Signup, then Sessions.Insert
HandleSignup(tbls, c, now) ==
  IF c.pc = "start"
    THEN IF c.arg.name = "" \/ c.arg.handle = "" \/ c.arg.email = "" \/ c.arg.password = ""
           THEN Ended(tbls, c, ErrMissing, NoEnt)
           ELSE [tables |-> tbls,
                 call   |-> [c EXCEPT !.pc = "counted",
                                      !.ent = SignupUser(c.arg, Count(tbls, "User") = 0)]]
  ELSE IF c.pc = "counted"
    THEN IF c.arg.password = "long" THEN Ended(tbls, c, ErrPasswordTooLong, NoEnt)
         ELSE UserInserted(tbls, c, CollectionInsert(tbls, c.ent, c.uuid, now, now))
  ELSE SessionInserted(tbls, c,
         CollectionInsert(tbls, Built("Session", "", FALSE, [UserID |-> c.ent.ID], now),
                          SessionUuid(c.uuid), now, now))

StartSignups ==
  /\ run.phase = "idle"
  /\ {"User", "Session"} \subseteq Collections
  /\ \E forms \in [1..NProcs -> Forms] :
       run' = [phase |-> "signup", base |-> tables,
               init  |-> [p \in 1..NProcs |-> Call("Signup", "User", NoEnt, forms[p], FreshUuids[p])],
               calls |-> [p \in 1..NProcs |-> Call("Signup", "User", NoEnt, forms[p], FreshUuids[p])]]
  /\ UNCHANGED <<tables, Ents, Repos, clock, last>>

SignupAct(p) ==
  /\ run.phase = "signup"
  /\ run.calls[p].pc # "done"
  /\ Stepping(p, HandleSignup(tables, run.calls[p], clock))
  /\ UNCHANGED <<Ents, Repos, clock, last>>

NextSignup ==
  \/ AuthManageAct
  \/ StartSignups
  \/ \E p \in 1..NProcs : SignupAct(p)

SpecSignup == Init /\ [][NextSignup]_vars

\* ------------------------------------------------ writes with two tables
\* two collections with a table each, filled and then written to
RowTypes == {"Task", "Session"}

NextRows ==
  \/ \E T \in RowTypes : ManageAct(T)
  \/ \E T \in RowTypes : \E f \in FieldVals(T) : InsertAct(T, Built(T, "", FALSE, f, clock), 0)
  \/ \E T \in RowTypes : \E ent \in UpdateInputs(tables, T, clock) : UpdateAct(T, ent)
  \/ \E T \in RowTypes : \E ent \in DeleteInputs(tables, T, clock) : DeleteAct(T, ent)

SpecRows == Init /\ [][NextRows]_vars

\* ------------------------------------------- reflection over struct types
\* struct types as reflect sees them: up to two declared fields, the first
\* possibly the embedded Model, of every kind, embedded or named, exported or
\* not, with or without a `default` tag
ProbeKinds == {"string", "int", "uint64", "float64", "complex128", "bool",
               "slice", "ptr", "interface", "func", "struct"}
ProbeTags  == {"", "1"}

ProbeFields(names) ==
  {Fld(n, k, a, t) : n \in names, k \in ProbeKinds, a \in BOOLEAN, t \in ProbeTags}

ProbeShapes ==
  {<<>>} \cup {<<f>> : f \in ProbeFields({"Model", "Name", "secret"})}
         \cup {<<f, g>> : f \in ProbeFields({"Model"}), g \in ProbeFields({"Name", "secret"})}

\* token.IsExported(name): the name starts with an upper-case letter
IsExported(name) == name \in {"ID", "CreatedAt", "UpdatedAt", "DB", "Model", "Name"}

\* a zero value of the struct type
ProbeEnt(shape) ==
  [type |-> "", ID |-> "", CreatedAt |-> ZeroTime, UpdatedAt |-> ZeroTime,
   f |-> [n \in {shape[i].name : i \in 1..Len(shape)} |-> ""]]

\* Reflect(ent) for a value of the struct type
ReflectOn(shape) ==
  ValidOf(ProbeEnt(shape), shape, <<"ID", "CreatedAt", "UpdatedAt">> \o FieldsOf(shape).fields)

\* the program declares one struct type; last.arg carries it
InitFields ==
  /\ tables = [t \in TableNames |-> NoTable]
  /\ Ents = <<>>
  /\ Repos = [t \in TableNames |-> ""]
  /\ clock = StartTick
  /\ run = Idle
  /\ \E shape \in ProbeShapes :
       last = Outcome("Dynamic", "", Nil, NoEnt, NoEnt, <<>>, 0, FALSE, shape)

FieldsAct ==
  /\ last' = Outcome("Fields", "", Nil, NoEnt, NoEnt, FieldsOf(last.arg), 0, FALSE, last.arg)
  /\ UNCHANGED <<tables, Ents, Repos, clock, run>>

\* reflect.Value.Interface() panics on a field obtained from an unexported one
ErrPanic == "panic: reflect.Value.Interface: cannot return value obtained from unexported field or method"

Panics(r) == \E i \in 1..Len(r.addrs) : ~IsExported(r.addrs[i])

Reflecting(shape, r) ==
  Outcome("Reflect", "", IF Panics(r) THEN ErrPanic ELSE Nil, NoEnt, NoEnt,
          IF Panics(r) THEN <<>> ELSE r, 0, FALSE, shape)

ReflectAct ==
  /\ last' = Reflecting(last.arg, ReflectOn(last.arg))
  /\ UNCHANGED <<tables, Ents, Repos, clock, run>>

NextFields == FieldsAct \/ ReflectAct

SpecFields == InitFields /\ [][NextFields]_vars

\* ------------------------------------------------------------- claims
Min(a, b) == IF a <= b THEN a ELSE b

\* the stored row with identifier id of table t
RowIndex(tbls, t, id) == CHOOSE i \in 1..Len(tbls[t].rows) : tbls[t].rows[i]["ID"] = id
Row(tbls, t, id) == tbls[t].rows[RowIndex(tbls, t, id)]

\* the rows a clause matches, in the order the table yields them
Matching(tbls, T, clause) == SqlSelect(tbls[Table(T)], <<"ID">>, clause).rows

ManageStep == Ents' # Ents \/ (last'.op = "Register" /\ last' # last)
InsertStep == last'.op = "Insert" /\ (last' # last \/ tables' # tables)
UpdateStep == last'.op = "Update" /\ (last' # last \/ tables' # tables)
DeleteStep == last'.op = "Delete" /\ (last' # last \/ tables' # tables)

\* C1: Find over a query matching one or more rows returns the first matching
\* row and a nil error; ErrIterStop never reaches Find's caller.
C1_FindReturnsFirstRowNoError ==
  (last.op = "Find" /\ Matching(tables, last.type, last.arg) # <<>>) =>
    /\ last.err = Nil
    /\ last.ent.ID = Matching(tables, last.type, last.arg)[1][1]

\* C2: after Delete of a stored record, Get on its identifier is not-found,
\* Count is one less, and no Search returns the row any more.
C2_DeleteFinality ==
  [][(DeleteStep /\ last'.ent.ID \in Stored(tables, Table(last'.type))) =>
       /\ Get(tables', last'.ent.ID, New(last'.type)).err = ErrNoRows
       /\ Count(tables', last'.type) = Count(tables, last'.type) - 1
       /\ \A c \in Clauses :
            last'.ent.ID \notin Range(IdsOf(Search(tables', last'.type, c)).ids)]_vars

\* C3: Insert followed by Get with the record's identifier yields the same
\* identifier, non-zero timestamps with CreatedAt <= UpdatedAt, and every scalar
\* field equal to its pre-insert value.
RoundTrip(pre, ent, g) ==
  /\ g.err = Nil
  /\ g.ent.ID = ent.ID
  /\ g.ent.CreatedAt # ZeroTime
  /\ g.ent.UpdatedAt # ZeroTime
  /\ g.ent.CreatedAt <= g.ent.UpdatedAt
  /\ g.ent.f = pre.f

C3_InsertGetRoundTrip ==
  (last.op = "Insert" /\ last.err = Nil) =>
    RoundTrip(last.pre, last.ent, Get(tables, last.ent.ID, New(last.type)))

C5_UpdateAdvancesUpdatedAt ==
  [][(/\ last.op = "Insert" /\ last.err = Nil /\ last.pre.ID = ""
      /\ clock > last.ent.UpdatedAt
      /\ UpdateStep /\ last'.err = Nil /\ last'.pre.ID = last.ent.ID) =>
       /\ Row(tables', Table(last'.type), last'.pre.ID).UpdatedAt
            > Row(tables, Table(last'.type), last'.pre.ID).UpdatedAt
       /\ last'.ent.UpdatedAt > Row(tables, Table(last'.type), last'.pre.ID).UpdatedAt]_vars

\* C6: whatever CreatedAt the record passed to Update carries, the stored row's
\* CreatedAt after a successful call equals the stored CreatedAt before it.
C6_UpdateKeepsCreatedAt ==
  [][(UpdateStep /\ last'.err = Nil) =>
       Row(tables', Table(last'.type), last'.pre.ID).CreatedAt
         = Row(tables, Table(last'.type), last'.pre.ID).CreatedAt]_vars

\* C7: across Insert and Update calls the stored UpdatedAt of a row never
\* decreases, and CreatedAt <= UpdatedAt holds for every stored row.
C7_TimestampsMonotonic ==
  [][\A t \in TableNames : \A id \in Stored(tables', t) :
       /\ Row(tables', t, id).CreatedAt <= Row(tables', t, id).UpdatedAt
       /\ id \in Stored(tables, t) =>
            Row(tables', t, id).UpdatedAt >= Row(tables, t, id).UpdatedAt]_vars

\* C8: Page with limit L over a query producing N rows, with a visitor that
\* never fails, visits exactly min(L, N) rows and reports more = (L < N).
C8_PageBoundary ==
  (last.op = "Page" /\ last.arg.val = "") =>
    /\ last.err = Nil
    /\ Len(last.ents) = Min(last.n, Count(tables, last.type))
    /\ last.more = (last.n < Count(tables, last.type))

C8_Witness ==
  /\ last.op = "Page" /\ last.arg.val = "" /\ last.err = Nil
  /\ last.n > 0 /\ last.n < Count(tables, last.type)
  /\ Len(last.ents) = last.n /\ last.more

\* C9: Register of a type that is already registered returns no error, and
\* leaves the table's columns and its rows as they were.
C9_RegisterIdempotent ==
  [][(ManageStep /\ last'.type \in Range(Ents)) =>
       /\ last'.err = Nil
       /\ tables'[Table(last'.type)].cols = tables[Table(last'.type)].cols
       /\ tables'[Table(last'.type)].rows = tables[Table(last'.type)].rows]_vars

C9_Witness ==
  /\ last.op = "Register" /\ last.err = Nil
  /\ Len(Ents) > 1 /\ Ents[Len(Ents)] \in Range(SubSeq(Ents, 1, Len(Ents) - 1))
  /\ tables[Table(last.type)].rows # <<>>

\* C10: registering a type that adds one scalar field to a registered type
\* leaves every stored row readable as the new type: Get succeeds, the new
\* field holds its kind's zero value, and the identifier, both timestamps and
\* every field stored before are what Get returned before.
Added(T0, T1) == {n \in DOMAIN New(T1).f : n \notin DOMAIN New(T0).f}

Evolves(T0, T1) ==
  /\ Cardinality(Added(T0, T1)) = 1
  /\ DOMAIN New(T0).f \subseteq DOMAIN New(T1).f
  /\ \A n \in DOMAIN New(T0).f : FieldKind(T0, n) = FieldKind(T1, n)

Backfilled(T0, T1, old, new) ==
  /\ new.err = Nil
  /\ new.ent.ID = old.ent.ID
  /\ new.ent.CreatedAt = old.ent.CreatedAt
  /\ new.ent.UpdatedAt = old.ent.UpdatedAt
  /\ \A n \in DOMAIN New(T0).f : new.ent.f[n] = old.ent.f[n]
  /\ \A n \in Added(T0, T1) : new.ent.f[n] = New(T1).f[n]

C10_DefaultBackfill ==
  [][\A T0 \in Types :
       (/\ ManageStep /\ Evolves(T0, last'.type)
        /\ Range(Ents) = {T0}) =>
         \A id \in Stored(tables, Table(T0)) :
           Backfilled(T0, last'.type, Get(tables, id, New(T0)),
                      Get(tables', id, New(last'.type)))]_vars

C10_Witness ==
  /\ last.op = "Register" /\ last.err = Nil
  /\ Ents = <<"Task", "TaskV2">>
  /\ \E id \in Stored(tables, "tasks") :
       Get(tables, id, New("TaskV2")).ent.f = [Title |-> "a", Done |-> FALSE]

\* the rows, or the error, of the SELECT statement a cursor of type T issues
CursorQuery(tbls, T, clause) == SqlSelect(tbls[Table(T)], Reflect(New(T)).fields, clause)

NoMatch(tbls, T, clause) ==
  CursorQuery(tbls, T, clause).err = Nil /\ CursorQuery(tbls, T, clause).rows = <<>>

\* C11: Find over a query matching zero rows reports not-found: the no-rows
\* error, which is neither success (nil) nor any other failure.
C11_FindNotFound ==
  (last.op = "Find" /\ NoMatch(tables, last.type, last.arg)) => last.err = ErrNoRows

\* C12: Get with an identifier no stored row has, and One over a query matching
\* zero rows, return the no-rows error: never nil, and no other failure.
C12_GetOneNotFound ==
  (last.op \in {"Get", "One"} /\ NoMatch(tables, last.type, last.arg)) =>
    last.err = ErrNoRows

C12_Witness ==
  /\ last.op = "Get" /\ last.err = ErrNoRows
  /\ Stored(tables, Table(last.type)) # {}
  /\ last.arg.val \notin Stored(tables, Table(last.type))

\* the identity block a record and a stored row share
SameIdentity(ent, row) ==
  /\ row["ID"] = ent.ID
  /\ row["CreatedAt"] = ent.CreatedAt
  /\ row["UpdatedAt"] = ent.UpdatedAt

\* C13: Collection.Insert of a record with an empty identifier gives it a
\* generated identifier no stored row has and stamps CreatedAt and UpdatedAt
\* with readings of the clock taken during the call; the row is written with
\* these values and the record returned is the one carrying them.
C13_InsertGeneratesIdentity ==
  [][(InsertStep /\ last'.pre.ID = "") =>
       /\ last'.ent.ID # ""
       /\ last'.ent.ID \notin Stored(tables, Table(last'.type))
       /\ clock <= last'.ent.CreatedAt /\ last'.ent.CreatedAt <= last'.ent.UpdatedAt
       /\ last'.ent.UpdatedAt <= clock'
       /\ last'.ent.f = last'.pre.f
       /\ last'.err = Nil =>
            /\ last'.ent.ID \in Stored(tables', Table(last'.type))
            /\ SameIdentity(last'.ent, Row(tables', Table(last'.type), last'.ent.ID))]_vars

C13_Witness ==
  /\ last.op = "Insert" /\ last.pre.ID = "" /\ last.err = Nil
  /\ Cardinality(Stored(tables, Table(last.type))) > 1
  /\ last.ent.ID \in Stored(tables, Table(last.type))
  /\ last.ent.CreatedAt = clock

\* C14: right after Collection.Insert of a record with an empty identifier the
\* record's CreatedAt equals its UpdatedAt.
C14_InsertStampsEqual ==
  (last.op = "Insert" /\ last.pre.ID = "") => last.ent.CreatedAt = last.ent.UpdatedAt

\* C15: Collection.Insert of a record with a non-empty identifier keeps that
\* identifier, and the row's CreatedAt and UpdatedAt are the column defaults
\* (CURRENT_TIMESTAMP at the insert), which RETURNING reads back into the record.
C15_InsertServerDefaults ==
  [][(InsertStep /\ last'.pre.ID # "" /\ last'.err = Nil) =>
       /\ last'.ent.ID = last'.pre.ID
       /\ Row(tables', Table(last'.type), last'.ent.ID)["CreatedAt"] = CurrentTimestamp(clock)
       /\ Row(tables', Table(last'.type), last'.ent.ID)["UpdatedAt"] = CurrentTimestamp(clock)
       /\ SameIdentity(last'.ent, Row(tables', Table(last'.type), last'.ent.ID))]_vars

\* the identifiers of a table's rows, in row order
RowIds(tbls, t) == [i \in 1..Len(tbls[t].rows) |-> tbls[t].rows[i]["ID"]]

IsPrefix(a, b) == Len(a) <= Len(b) /\ SubSeq(b, 1, Len(a)) = a

\* C16: a fresh record has an empty identifier and only Insert gives it one;
\* no Insert, Update or Delete changes a non-empty identifier of the record
\* passed to it, nor the identifier of any stored row.
C16_IdentifierImmutable ==
  [][(InsertStep \/ UpdateStep \/ DeleteStep) =>
       /\ New(last'.type).ID = ""
       /\ (last'.pre.ID # "" \/ last'.op # "Insert") => last'.ent.ID = last'.pre.ID
       /\ last'.op # "Delete" =>
            IsPrefix(RowIds(tables, Table(last'.type)), RowIds(tables', Table(last'.type)))
       /\ Stored(tables', Table(last'.type))
            \subseteq Stored(tables, Table(last'.type)) \cup {last'.ent.ID}]_vars

C16_Witness ==
  /\ last.op = "Update" /\ last.err = Nil
  /\ last.pre.ID # "" /\ last.ent.ID = last.pre.ID
  /\ last.ent.ID \in Stored(tables, Table(last.type))
  /\ Cardinality(Stored(tables, Table(last.type))) > 1

\* C17: after a successful Update of a record, Get with the record's
\* identifier returns every scalar field with the value the record held when
\* Update was called.
FieldsRead(pre, g) == g.err = Nil /\ g.ent.ID = pre.ID /\ g.ent.f = pre.f

C17_UpdateGetRoundTrip ==
  (last.op = "Update" /\ last.err = Nil) =>
    FieldsRead(last.pre, Get(tables, last.pre.ID, New(last.type)))

C17_Witness ==
  /\ last.op = "Update" /\ last.err = Nil /\ last.type = "TaskV2"
  /\ last.pre.f = [Title |-> "a", Done |-> TRUE]
  /\ Get(tables, last.pre.ID, New("TaskV2")).ent.f = [Title |-> "a", Done |-> TRUE]

\* C18: cursor.Iter over a query matching zero rows never calls its visitor
\* and returns nil: Search returns no error and an empty list, and Find's
\* record is left as Collection.New made it.
C18_EmptyResultIsNoError ==
  /\ (last.op = "Search" /\ NoMatch(tables, last.type, last.arg)) =>
       last.err = Nil /\ last.ents = <<>> /\ last.n = 0
  /\ (last.op = "Find" /\ NoMatch(tables, last.type, last.arg)) =>
       last.err = Nil /\ last.ent = New(last.type)

C18_Witness ==
  /\ last.op = "Search" /\ NoMatch(tables, last.type, last.arg)
  /\ Count(tables, last.type) > 1
  /\ last.err = Nil /\ last.ents = <<>>

\* C19: Register returns an error exactly when its CREATE TABLE statement
\* fails or the record, dereferenced once, is not a struct; ALTER TABLE
\* failures (a column that already exists) never make it fail.
CreateFails(tbls, T) == SqlCreate(tbls, Table(T)).err # Nil

C19_RegisterErrorIff ==
  [][ManageStep =>
       (last'.err # Nil <=> (CreateFails(tables, last'.type) \/ ElemKind(last'.type) # "struct"))]_vars

\* C20: every Insert, Update, Delete, Get and Search call is one statement
\* against the store, so however the calls of concurrent callers interleave,
\* the table contents and every call's result are those of the calls run one
\* after another in some order.
AllDone == run.phase = "running" /\ \A p \in 1..NProcs : run.calls[p].pc = "done"

C20_SingleStatementSerializable ==
  /\ run.phase = "running" => \A p \in 1..NProcs : run.calls[p].pc \in {"start", "done"}
  /\ AllDone =>
       \E o \in Orders :
         Serial(run.base, run.init, o, clock) = [tables |-> tables, calls |-> run.calls]

C20_Witness ==
  /\ AllDone
  /\ \A p \in 1..NProcs : run.calls[p].op = "Insert" /\ run.calls[p].ent.ID = "u2"
  /\ run.calls[1].res.err = ErrConstraint /\ run.calls[2].res.err = Nil
  /\ run.calls[1].ent.f # run.calls[2].ent.f
  /\ run.base.tasks.rows # <<>>

\* C21: the value Delete binds to WHERE ID = ? is the identifier held in the
\* record's identity block, also when that block is an embedded struct.
C21_DeleteBindsOwnIdentifier ==
  last.op = "Delete" => entID(last.pre) = last.pre.ID

\* C22: Fields maps every field it keeps to exactly one storage type and one
\* default: string to TEXT '', every integer width to INTEGER 0, every float
\* or complex width to REAL 0, bool to BOOLEAN FALSE, any other kind to ANY
\* NULL; a non-empty default tag replaces the zero default; the three lists
\* have the same length.
Kept(shape) == SelectSeq(shape, Persistable)

StorageType(kind) ==
  CASE kind = "string" -> "TEXT"
    [] kind \in {"int", "int8", "int16", "int32", "int64"} -> "INTEGER"
    [] kind \in {"uint", "uint8", "uint16", "uint32", "uint64", "uintptr"} -> "INTEGER"
    [] kind \in {"float32", "float64", "complex64", "complex128"} -> "REAL"
    [] kind = "bool" -> "BOOLEAN"
    [] OTHER -> "ANY"

ZeroLiteral(type) ==
  CASE type = "TEXT" -> "''"
    [] type \in {"INTEGER", "REAL"} -> "0"
    [] type = "BOOLEAN" -> "FALSE"
    [] OTHER -> "NULL"

C22_ColumnTypeMapping ==
  last.op = "Fields" =>
    /\ Len(last.ents.fields) = Len(Kept(last.arg))
    /\ Len(last.ents.types) = Len(last.ents.fields)
    /\ Len(last.ents.defaults) = Len(last.ents.fields)
    /\ \A i \in 1..Len(Kept(last.arg)) :
         /\ last.ents.fields[i] = Kept(last.arg)[i].name
         /\ last.ents.types[i] = StorageType(Kept(last.arg)[i].kind)
         /\ last.ents.defaults[i] =
              IF Kept(last.arg)[i].tag # "" THEN Kept(last.arg)[i].tag
              ELSE ZeroLiteral(last.ents.types[i])

C22_Witness ==
  /\ last.op = "Fields"
  /\ last.ents.types = <<"INTEGER", "ANY">>
  /\ last.ents.defaults = <<"1", "NULL">>
  /\ last.arg[1].kind = "uint64"

\* C23: only exported, non-embedded fields of scalar kind become columns;
\* embedded fields, unexported fields and fields of pointer, interface,
\* function, struct or any other non-scalar kind are skipped by Fields.
ScalarKinds == {"string", "bool"} \cup IntKinds \cup FloatKinds

C23_OnlyExportedScalarColumns ==
  last.op = "Fields" =>
    Range(last.ents.fields) =
      {last.arg[i].name : i \in {k \in 1..Len(last.arg) :
                                   /\ ~last.arg[k].anon
                                   /\ IsExported(last.arg[k].name)
                                   /\ last.arg[k].kind \in ScalarKinds}}

\* C24: the name, value and address lists of Reflect have the same length and
\* position i of each is the same field, in the order ID, CreatedAt,
\* UpdatedAt, then the kept fields as declared; a name that is no field of the
\* struct is in none of the three lists.
C24_ReflectPositional ==
  (last.op = "Reflect" /\ last.err = Nil) =>
    /\ Len(last.ents.fields) = Len(last.ents.values)
    /\ Len(last.ents.fields) = Len(last.ents.addrs)
    /\ last.ents.addrs = last.ents.fields
    /\ last.ents.fields =
         SelectSeq(<<"ID", "CreatedAt", "UpdatedAt">> \o FieldsOf(last.arg).fields,
                   LAMBDA n : HasFieldIn(last.arg, n))

\* C25: in Iter.All and cursor.Iter, once the visitor returns an error that
\* is not the early-stop signal, no further row is visited and that error is
\* what the caller gets; Page returns it with more = false.
VisitorFailed ==
  /\ last.op \in {"All", "Iter", "Page"}
  /\ last.arg.failAt \in 1..Count(tables, last.type)
  /\ last.op = "Page" => last.arg.failAt <= last.n

C25_VisitorErrorPropagates ==
  VisitorFailed =>
    /\ last.err = last.arg.failWith
    /\ Len(last.ents) = last.arg.failAt
    /\ last.op = "Page" => ~last.more

\* the part of C25 about Iter.All and Page
AllAndPagePropagate ==
  (VisitorFailed /\ last.op # "Iter") =>
    /\ last.err = last.arg.failWith
    /\ Len(last.ents) = last.arg.failAt
    /\ last.op = "Page" => ~last.more

\* C26: Update and Delete change at most the one row whose ID is the record's
\* identifier; every other row of the table and every row of every other
\* table stays as it was.
Others(tbls, t, id) == SelectSeq(tbls[t].rows, LAMBDA r : r["ID"] # id)

C26_RowTargeting ==
  [][(UpdateStep \/ DeleteStep) =>
       /\ \A t \in TableNames : Others(tables', t, last'.pre.ID) = Others(tables, t, last'.pre.ID)
       /\ \A t \in TableNames \ {Table(last'.type)} : tables'[t] = tables[t]
       /\ Len(tables'[Table(last'.type)].rows) <= Len(tables[Table(last'.type)].rows)]_vars

C26_Witness ==
  /\ last.op = "Update" /\ last.err = Nil
  /\ Len(tables[Table(last.type)].rows) > 1
  /\ \E t \in TableNames \ {Table(last.type)} : tables[t].rows # <<>>
  /\ Row(tables, Table(last.type), last.pre.ID).UpdatedAt = CurrentTimestamp(clock)
  /\ \E id \in Stored(tables, Table(last.type)) :
       Row(tables, Table(last.type), id).UpdatedAt # CurrentTimestamp(clock)

\* C27: a table never holds two rows with the same identifier; an Insert of
\* a record whose non-empty identifier is already stored returns an error and
\* leaves every stored row as it was.
UniqueIds(tbls) ==
  \A t \in TableNames : \A i, k \in 1..Len(tbls[t].rows) :
    tbls[t].rows[i]["ID"] = tbls[t].rows[k]["ID"] => i = k

C27_IdentifierUnique ==
  [][/\ UniqueIds(tables) /\ UniqueIds(tables')
     /\ (InsertStep /\ last'.pre.ID # "" /\ last'.pre.ID \in Stored(tables, Table(last'.type))) =>
          (last'.err # Nil /\ tables' = tables)]_vars

C27_Witness ==
  /\ last.op = "Insert" /\ last.pre.ID # "" /\ last.err = ErrConstraint
  /\ last.pre.ID \in Stored(tables, Table(last.type))
  /\ Row(tables, Table(last.type), last.pre.ID).CreatedAt # last.pre.CreatedAt

\* C28: Update of a record whose identifier matches no stored row returns an
\* error, the no-rows error of the RETURNING scan when the statement itself is
\* valid, creates no row and changes no row.
C28_UpdateOfMissingRow ==
  [][(UpdateStep /\ last'.pre.ID \notin Stored(tables, Table(last'.type))) =>
       /\ last'.err # Nil
       /\ tables' = tables
       /\ Range(Reflect(last'.pre).fields) \subseteq ColNames(tables[Table(last'.type)]) =>
            last'.err = ErrNoRows]_vars

C28_Witness ==
  /\ last.op = "Update" /\ last.err = ErrNoRows
  /\ last.pre.ID # "" /\ last.pre.ID \notin Stored(tables, Table(last.type))
  /\ tables[Table(last.type)].rows # <<>>

\* C29: a Register call that returns an error leaves the store as it was: no
\* table has been created and the registered-type list has not grown.
C29_FailedRegisterChangesNothing ==
  [][(ManageStep /\ last'.err # Nil) => (tables' = tables /\ Ents' = Ents)]_vars

\* C30: however concurrent signup requests interleave, at most one user is
\* created with IsAdmin = true: only a signup made while the users table is
\* empty yields an admin.
Admins(tbls) ==
  {i \in 1..Len(tbls["users"].rows) : tbls["users"].rows[i]["IsAdmin"] = Bind("bool", TRUE)}

C30_AtMostOneAdmin == Cardinality(Admins(tables)) <= 1

====
